---- MODULE Spec2Model ----
(***************************************************************************)
(* Sanity tracking of the FoundryVTT module tabulanil-sanity-dnd5e          *)
(* (scripts/tabulanil-sanity.js): the capacity ("total sanity") derived     *)
(* from the three mental ability scores, the stored current sanity flag,   *)
(* the insanity tier derived from their ratio, and the handlers that write *)
(* the flag (sheet render, token HUD input, sheet field, ability change).  *)
(***************************************************************************)
EXTENDS Integers, Sequences, FiniteSets, TLC

(***************************************************************************)
(* Bounds of the model.                                                    *)
(***************************************************************************)
\* ability scores of the calculator specification range over 0..MaxScore
MaxScore == 4
\* document updates that may be in flight at once
MaxPending == 1

(***************************************************************************)
(* JavaScript values.  A stored flag, a parsed input or an intermediate    *)
(* result is a number, NaN or undefined; a quotient may also be +-Infinity.*)
(* Numbers are kept exact: every number the handlers produce from the      *)
(* inputs below is an integer, and a quotient is kept as a fraction n/d    *)
(* with d > 0.  For such small integers the IEEE-754 comparisons of n/d    *)
(* with 1.0 and with the literals 0.8 .. 0.0 agree with the exact ones.    *)
(***************************************************************************)
Num(n) == [t |-> "num", n |-> n]
Undefined == [t |-> "undefined", n |-> 0]
NaN == [t |-> "nan", n |-> 0]

Frac(n, d) == [t |-> "num", n |-> n, d |-> d]
RatNaN == [t |-> "nan", n |-> 0, d |-> 1]
PosInf == [t |-> "+inf", n |-> 0, d |-> 1]
NegInf == [t |-> "-inf", n |-> 0, d |-> 1]

\* ToNumber of a value used as an operand: undefined becomes NaN
JsToNumber(x) == IF x.t = "num" THEN x ELSE NaN

\* variant: the sum is the right operand alone
JsAdd_RightOnly(x, y) == JsToNumber(y)

\* x + y on numbers; undefined + n and NaN + n are NaN
JsAdd(x, y) ==
  IF JsToNumber(x).t = "num" /\ JsToNumber(y).t = "num" THEN Num(x.n + y.n) ELSE NaN

\* x > y and x < y: every comparison with NaN (or undefined) is false
JsGt(x, y) == JsToNumber(x).t = "num" /\ JsToNumber(y).t = "num" /\ x.n > y.n
JsLt(x, y) == JsToNumber(x).t = "num" /\ JsToNumber(y).t = "num" /\ x.n < y.n

\* Math.min(x, y), Math.max(x, y): NaN if either operand is NaN
MathMin(x, y) ==
  IF JsToNumber(x).t = "num" /\ JsToNumber(y).t = "num"
  THEN (IF x.n <= y.n THEN x ELSE y)
  ELSE NaN
MathMax(x, y) ==
  IF JsToNumber(x).t = "num" /\ JsToNumber(y).t = "num"
  THEN (IF x.n >= y.n THEN x ELSE y)
  ELSE NaN

\* x / y for a value x and an integer y: n/0 is +-Infinity, 0/0 is NaN
JsDiv(x, y) ==
  IF JsToNumber(x).t # "num" THEN RatNaN
  ELSE IF y > 0 THEN Frac(x.n, y)
  ELSE IF y < 0 THEN Frac(0 - x.n, 0 - y)
  ELSE IF x.n > 0 THEN PosInf
  ELSE IF x.n < 0 THEN NegInf
  ELSE RatNaN

\* the coefficient literals are tenths: coef[i] stands for coef[i] / CoefScale
CoefScale == 10

\* r === 1.0
RatIsOne(r) == r.t = "num" /\ r.n = r.d
\* variants of the comparison: >= and < in place of >
RatGe(r, c) ==
  \/ r.t = "+inf"
  \/ r.t = "num" /\ r.n * CoefScale >= c * r.d
RatLt(r, c) ==
  \/ r.t = "-inf"
  \/ r.t = "num" /\ r.n * CoefScale < c * r.d
\* r > c / CoefScale
RatGt(r, c) ==
  \/ r.t = "+inf"
  \/ r.t = "num" /\ r.n * CoefScale > c * r.d

(***************************************************************************)
(* Text inputs.  A string is a sequence of one-character strings over      *)
(* digits, the signs, "=", a blank and the letter "x".                     *)
(***************************************************************************)
Digits == {"0", "1", "2", "3", "4", "5", "6", "7", "8", "9"}
DigitVal(c) ==
  CASE c = "0" -> 0 [] c = "1" -> 1 [] c = "2" -> 2 [] c = "3" -> 3 [] c = "4" -> 4
    [] c = "5" -> 5 [] c = "6" -> 6 [] c = "7" -> 7 [] c = "8" -> 8 [] c = "9" -> 9

RECURSIVE Trim(_)
\* String.prototype.trim
Trim(s) ==
  IF s = <<>> THEN s
  ELSE IF Head(s) = " " THEN Trim(Tail(s))
  ELSE IF s[Len(s)] = " " THEN Trim(SubSeq(s, 1, Len(s) - 1))
  ELSE s

StartsWith(s, c) == Len(s) > 0 /\ Head(s) = c

RECURSIVE DecimalValue(_, _)
\* the value of a sequence of digits, most significant first
DecimalValue(s, acc) ==
  IF s = <<>> THEN acc ELSE DecimalValue(Tail(s), acc * 10 + DigitVal(Head(s)))

AllDigits(s) == Len(s) > 0 /\ \A i \in 1..Len(s) : s[i] \in Digits

\* Number(str): "" and blanks are 0, an optionally signed decimal integer is
\* its value, anything else over this alphabet is NaN
Number(str) ==
  LET s == Trim(str) IN
  IF s = <<>> THEN Num(0)
  ELSE IF AllDigits(s) THEN Num(DecimalValue(s, 0))
  ELSE IF StartsWith(s, "+") /\ AllDigits(Tail(s)) THEN Num(DecimalValue(Tail(s), 0))
  ELSE IF StartsWith(s, "-") /\ AllDigits(Tail(s)) THEN Num(0 - DecimalValue(Tail(s), 0))
  ELSE NaN

(***************************************************************************)
(* The world.                                                              *)
(***************************************************************************)
Actors == {"a1", "a2"}
Abilities == {"cha", "int", "wis"}
\* the ability scores the handlers are run with: totals 0, 2, 4 and 6
AbilityScores == {0, 1}

VARIABLES
  actors,     \* game.actors: the actors that exist in the world
  abilities,  \* abilities[a][f]: actor.system.abilities.<f>.value
  flags,      \* flags[a]: the actor's flag currSanity (Undefined when not set)
  settings,   \* the module's world settings
  pending,    \* document updates sent and not yet resolved, oldest first
  sheet,      \* sheet[a]: the actor's open sheet shows the sanity bar
  rendered,   \* the sanity bar injected by the step just taken, if any
  hookCalls,  \* the insanityTierChanged hook calls made by the step just taken
  resolved,   \* the update stored by the step just taken, if any
  calc,       \* the query answered by the step just taken, if any
  rejections  \* the update promises rejected by the step just taken

vars ==
  <<actors, abilities, flags, settings, pending, sheet, rendered, hookCalls, resolved, calc,
    rejections>>

NoBar == [actor |-> "none", curr |-> Undefined, max |-> 0, tier |-> 0]
NoUpdate == [actor |-> "none", src |-> "none"]
NoCalc == [fn |-> "none", actor |-> "none", arg |-> Undefined, out |-> Undefined]

\* extraData = {}: no pending ability scores
NoExtra == [f \in {} |-> 0]

(***************************************************************************)
(* TabulanilSanityData and TabulanilSanityConfig.                          *)
(***************************************************************************)
\* variant: a missing flag reads as 0
getSanityForActor_DefaultZero(a) == IF flags[a] = Undefined THEN Num(0) ELSE flags[a]

getSanityForActor(a) == flags[a]

\* extraData.system?.abilities?.<f>?.value || actorAbilities.<f>.value:
\* a missing field is undefined and a pending 0 is falsy, both fall back
AbilityOr(extraData, f, stored) ==
  IF f \in DOMAIN extraData /\ extraData[f] # 0 THEN extraData[f] ELSE stored

\* variant: the sum is not doubled
calcTotalSanityForActor_NotDoubled(a, extraData) ==
  LET actorAbilities == abilities[a]
      chaValue == AbilityOr(extraData, "cha", actorAbilities["cha"])
      intValue == AbilityOr(extraData, "int", actorAbilities["int"])
      wisValue == AbilityOr(extraData, "wis", actorAbilities["wis"])
  IN chaValue + intValue + wisValue

calcTotalSanityForActor(a, extraData) ==
  LET actorAbilities == abilities[a]
      chaValue == AbilityOr(extraData, "cha", actorAbilities["cha"])
      intValue == AbilityOr(extraData, "int", actorAbilities["int"])
      wisValue == AbilityOr(extraData, "wis", actorAbilities["wis"])
  IN (chaValue + intValue + wisValue) * 2

\* variant: the total is read from the stored flag, written at initialisation
getTotalSanityForActor_FromFlag(a) == IF flags[a].t = "num" THEN flags[a].n ELSE 0

getTotalSanityForActor(a) == calcTotalSanityForActor(a, NoExtra)

\* variant: the list lacks its last coefficient 0.0
getTierCoef_NoZero == <<8, 6, 4, 2, 1>>

\* [0.8, 0.6, 0.4, 0.2, 0.1, 0.0] in units of 1 / CoefScale
getTierCoef == <<8, 6, 4, 2, 1, 0>>

RECURSIVE TierLoop(_, _, _, _)
\* the for loop of _calcInsanityTier at (1-based) index i
TierLoop(sanPerc, coef, i, currTier) ==
  IF i > Len(coef) THEN currTier
  ELSE IF RatGt(sanPerc, coef[i]) THEN currTier
  ELSE TierLoop(sanPerc, coef, i + 1, i)

\* variant: the loop sets currTier = i + 2
calcInsanityTier_OffByOne(sanPerc, coef) ==
  IF RatIsOne(sanPerc) THEN 0
  ELSE LET t == TierLoop(sanPerc, coef, 1, 0) IN IF t = 0 THEN 0 ELSE t + 1

calcInsanityTier(sanPerc, coef) ==
  IF RatIsOne(sanPerc) THEN 0 ELSE TierLoop(sanPerc, coef, 1, 0)

\* variant: the current is taken from the update in flight, when there is one
getInsanityTierForActor_InFlight(a) ==
  LET totalSan == calcTotalSanityForActor(a, NoExtra)
      currSan == IF pending # <<>> /\ Head(pending).actor = a
                 THEN Head(pending).data ELSE getSanityForActor(a)
      sanPerc == JsDiv(currSan, totalSan)
  IN calcInsanityTier(sanPerc, getTierCoef)

\* variant: an actor without stored current is given tier 0
getInsanityTierForActor_UndefinedIsZero(a) ==
  LET totalSan == calcTotalSanityForActor(a, NoExtra)
      currSan == getSanityForActor(a)
      sanPerc == JsDiv(currSan, totalSan)
  IN IF currSan = Undefined THEN 0 ELSE calcInsanityTier(sanPerc, getTierCoef)

getInsanityTierForActor(a) ==
  LET totalSan == calcTotalSanityForActor(a, NoExtra)
      currSan == getSanityForActor(a)
      sanPerc == JsDiv(currSan, totalSan)
  IN calcInsanityTier(sanPerc, getTierCoef)

\* variant: the value is capped at the total and not floored at 0
clampValue_NoFloor(value, a) ==
  LET maxSan == getTotalSanityForActor(a)
  IN MathMin(value, Num(maxSan))

clampValue(value, a) ==
  LET maxSan == getTotalSanityForActor(a)
  IN MathMax(Num(0), MathMin(value, Num(maxSan)))

\* variant: the previous tier is read after the update, from the value written
updateSanityFlagsForActor_PrevAfterWrite(a, data, src) ==
  [actor |-> a, data |-> data, hook |-> TRUE,
   prevTier |-> calcInsanityTier(JsDiv(data, calcTotalSanityForActor(a, NoExtra)), getTierCoef),
   src |-> src]

\* updateSanityFlagsForActor up to its await: the previous tier is taken and
\* the update is sent; the rest runs when the update resolves (ResolveUpdate)
updateSanityFlagsForActor(a, data, src) ==
  [actor |-> a, data |-> data, hook |-> TRUE,
   prevTier |-> getInsanityTierForActor(a), src |-> src]

\* updateSanityForActor: actor.setFlag, nothing runs when it resolves
updateSanityForActor(a, value, src) ==
  [actor |-> a, data |-> value, hook |-> FALSE, prevTier |-> 0, src |-> src]

initializeSanityValuesForActor(a) ==
  LET totalSanity == calcTotalSanityForActor(a, NoExtra)
  IN updateSanityFlagsForActor(a, Num(totalSanity), "init")

(***************************************************************************)
(* Inputs.                                                                 *)
(***************************************************************************)
\* texts typed into the token HUD input
HudInputs ==
  { <<"2">>, <<"9", "9">>, <<"=", "-", "4">>, <<"+", "1">>, <<"-", "3">>, <<"x">> }

\* texts typed into the sheet's sanity field
SheetInputs == { <<"-", "3">>, <<"1">>, <<"5", "0">> }

SettingNames == {"injectButton", "tokenHUDEnable", "publicSanMsg"}

(***************************************************************************)
(* Initial state: the settings as registered, no actor has the flag.       *)
(***************************************************************************)
DefaultSettings ==
  [injectButton |-> TRUE, tokenHUDEnable |-> TRUE, publicSanMsg |-> FALSE]

Init ==
  /\ actors = {"a1"}
  /\ abilities \in [Actors -> [Abilities -> AbilityScores]]
  /\ \A a \in Actors \ actors : \A f \in Abilities : abilities[a][f] = 0
  /\ flags = [a \in Actors |-> Undefined]
  /\ settings = DefaultSettings
  /\ pending = <<>>
  /\ sheet = [a \in Actors |-> FALSE]
  /\ rendered = NoBar
  /\ hookCalls = <<>>
  /\ resolved = NoUpdate
  /\ calc = NoCalc
  /\ rejections = <<>>

(***************************************************************************)
(* Handlers.                                                               *)
(***************************************************************************)
\* variant: the flag is initialised at every render, set or not
renderActorSheet5eCharacter_NoGuard(a) ==
  /\ a \in actors
  /\ LET currSanity == getSanityForActor(a)
         totalSanity == calcTotalSanityForActor(a, NoExtra)
         doInit == settings.injectButton
         doClamp == /\ settings.injectButton
                    /\ totalSanity > 0
                    /\ (JsGt(currSanity, Num(totalSanity)) \/ JsLt(currSanity, Num(0)))
         shown == IF doClamp THEN clampValue(currSanity, a) ELSE currSanity
         inject == settings.injectButton /\ totalSanity > 0
     IN /\ pending' =
             IF doInit THEN Append(pending, initializeSanityValuesForActor(a))
             ELSE IF doClamp THEN Append(pending, updateSanityForActor(a, shown, "clamp"))
             ELSE pending
        /\ sheet' = [sheet EXCEPT ![a] = inject]
        /\ rendered' =
             IF inject
             THEN [actor |-> a, curr |-> shown, max |-> totalSanity,
                   tier |-> getInsanityTierForActor(a)]
             ELSE NoBar
  /\ hookCalls' = <<>>
  /\ resolved' = NoUpdate
  /\ rejections' = <<>>
  /\ calc' = NoCalc
  /\ UNCHANGED <<actors, abilities, flags, settings>>

\* Hooks.on("renderActorSheet5eCharacter"): initialise a missing flag, clamp
\* an out-of-range one, inject the bar
renderActorSheet5eCharacter(a) ==
  /\ a \in actors
  /\ LET currSanity == getSanityForActor(a)
         totalSanity == calcTotalSanityForActor(a, NoExtra)
         doInit == settings.injectButton /\ currSanity = Undefined
         doClamp == /\ settings.injectButton
                    /\ totalSanity > 0
                    /\ (JsGt(currSanity, Num(totalSanity)) \/ JsLt(currSanity, Num(0)))
         shown == IF doClamp THEN clampValue(currSanity, a) ELSE currSanity
         inject == settings.injectButton /\ totalSanity > 0
     IN /\ pending' =
             IF doInit THEN Append(pending, initializeSanityValuesForActor(a))
             ELSE IF doClamp THEN Append(pending, updateSanityForActor(a, shown, "clamp"))
             ELSE pending
        /\ sheet' = [sheet EXCEPT ![a] = inject]
        /\ rendered' =
             IF inject
             THEN [actor |-> a, curr |-> shown, max |-> totalSanity,
                   tier |-> getInsanityTierForActor(a)]
             ELSE NoBar
  /\ hookCalls' = <<>>
  /\ resolved' = NoUpdate
  /\ rejections' = <<>>
  /\ calc' = NoCalc
  /\ UNCHANGED <<actors, abilities, flags, settings>>

\* variant: the hook is called when the update is sent, with the tier of the
\* value about to be written, and nothing runs when the update resolves
renderTokenHUD_EmitBeforeWrite(a, text) ==
  /\ a \in actors
  /\ settings.tokenHUDEnable
  /\ LET strVal0 == Trim(text)
         isDelta == StartsWith(strVal0, "+") \/ StartsWith(strVal0, "-")
         strVal == IF StartsWith(strVal0, "=") THEN Tail(strVal0) ELSE strVal0
         value == Number(strVal)
         currSanity0 == getSanityForActor(a)
         currSanity1 == IF isDelta THEN JsAdd(currSanity0, value) ELSE value
         currSanity == clampValue(currSanity1, a)
         prevTier == getInsanityTierForActor(a)
         newTier == calcInsanityTier(JsDiv(currSanity, calcTotalSanityForActor(a, NoExtra)),
                                     getTierCoef)
     IN /\ pending' = Append(pending,
             updateSanityForActor(a, currSanity, IF isDelta THEN "adjust" ELSE "set"))
        /\ hookCalls' =
             IF prevTier # newTier
             THEN << [prevTier |-> prevTier, newTier |-> newTier, actor |-> a] >>
             ELSE <<>>
  /\ rendered' = NoBar
  /\ resolved' = NoUpdate
  /\ rejections' = <<>>
  /\ calc' = NoCalc
  /\ UNCHANGED <<actors, abilities, flags, settings, sheet>>

\* variant: only a leading "+" makes the input relative
renderTokenHUD_MinusIsAbsolute(a, text) ==
  /\ a \in actors
  /\ settings.tokenHUDEnable
  /\ LET strVal0 == Trim(text)
         isDelta == StartsWith(strVal0, "+")
         strVal == IF StartsWith(strVal0, "=") THEN Tail(strVal0) ELSE strVal0
         value == Number(strVal)
         currSanity0 == getSanityForActor(a)
         currSanity1 == IF isDelta THEN JsAdd(currSanity0, value) ELSE value
         currSanity == clampValue(currSanity1, a)
     IN pending' = Append(pending,
          updateSanityFlagsForActor(a, currSanity, IF isDelta THEN "adjust" ELSE "set"))
  /\ rendered' = NoBar
  /\ hookCalls' = <<>>
  /\ resolved' = NoUpdate
  /\ rejections' = <<>>
  /\ calc' = NoCalc
  /\ UNCHANGED <<actors, abilities, flags, settings, sheet>>

\* Hooks.on("renderTokenHUD") and its focusout listener: parse the text, set
\* or adjust, clamp, send the update
renderTokenHUD(a, text) ==
  /\ a \in actors
  /\ settings.tokenHUDEnable
  /\ LET strVal0 == Trim(text)
         isDelta == StartsWith(strVal0, "+") \/ StartsWith(strVal0, "-")
         strVal == IF StartsWith(strVal0, "=") THEN Tail(strVal0) ELSE strVal0
         value == Number(strVal)
         currSanity0 == getSanityForActor(a)
         currSanity1 == IF isDelta THEN JsAdd(currSanity0, value) ELSE value
         currSanity == clampValue(currSanity1, a)
     IN pending' = Append(pending,
          updateSanityFlagsForActor(a, currSanity, IF isDelta THEN "adjust" ELSE "set"))
  /\ rendered' = NoBar
  /\ hookCalls' = <<>>
  /\ resolved' = NoUpdate
  /\ rejections' = <<>>
  /\ calc' = NoCalc
  /\ UNCHANGED <<actors, abilities, flags, settings, sheet>>

\* the sheet's input named flags.<ID>.currSanity (data-dtype Number): the host
\* submits the form and updates the flag with the number typed, as it is
SheetFieldEdit(a, text) ==
  /\ a \in actors
  /\ sheet[a]
  /\ pending' = Append(pending, updateSanityForActor(a, Number(text), "sheet"))
  /\ rendered' = NoBar
  /\ hookCalls' = <<>>
  /\ resolved' = NoUpdate
  /\ rejections' = <<>>
  /\ calc' = NoCalc
  /\ UNCHANGED <<actors, abilities, flags, settings, sheet>>

\* the host commits a change of one mental ability score
AbilityChange(a, f, v) ==
  /\ a \in actors
  /\ abilities[a][f] # v
  /\ abilities' = [abilities EXCEPT ![a][f] = v]
  /\ rendered' = NoBar
  /\ hookCalls' = <<>>
  /\ resolved' = NoUpdate
  /\ rejections' = <<>>
  /\ calc' = NoCalc
  /\ UNCHANGED <<actors, flags, settings, pending, sheet>>

\* a world setting is switched
ToggleSetting(k) ==
  /\ settings' = [settings EXCEPT ![k] = ~settings[k]]
  /\ rendered' = NoBar
  /\ hookCalls' = <<>>
  /\ resolved' = NoUpdate
  /\ rejections' = <<>>
  /\ calc' = NoCalc
  /\ UNCHANGED <<actors, abilities, flags, pending, sheet>>

\* variant: one hook call is made for every tier passed on the way
ResolveUpdate_StepwiseEvents ==
  /\ pending # <<>>
  /\ \E u \in {Head(pending)} :
       /\ flags' = [flags EXCEPT ![u.actor] = u.data]
       /\ pending' = Tail(pending)
       /\ calc' = NoCalc
       /\ UNCHANGED <<actors, abilities, settings, sheet>>
       /\ rendered' = NoBar
       /\ resolved' = [actor |-> u.actor, src |-> u.src]
       /\ rejections' = <<>>
       /\ \E newTier \in {getInsanityTierForActor(u.actor)'} :
            hookCalls' =
              IF ~u.hook THEN <<>>
              ELSE IF u.prevTier <= newTier
              THEN [i \in 1..(newTier - u.prevTier) |->
                      [prevTier |-> u.prevTier + i - 1, newTier |-> u.prevTier + i,
                       actor |-> u.actor]]
              ELSE [i \in 1..(u.prevTier - newTier) |->
                      [prevTier |-> u.prevTier - i + 1, newTier |-> u.prevTier - i,
                       actor |-> u.actor]]

\* variant: the update is applied to every actor's flag
ResolveUpdate_AllActors ==
  /\ pending # <<>>
  /\ \E u \in {Head(pending)} :
       /\ flags' = [b \in Actors |-> u.data]
       /\ pending' = Tail(pending)
       /\ calc' = NoCalc
       /\ UNCHANGED <<actors, abilities, settings, sheet>>
       /\ rendered' = NoBar
       /\ resolved' = [actor |-> u.actor, src |-> u.src]
       /\ rejections' = <<>>
       /\ hookCalls' =
            IF u.hook /\ u.prevTier # getInsanityTierForActor(u.actor)'
            THEN << [prevTier |-> u.prevTier,
                     newTier |-> getInsanityTierForActor(u.actor)',
                     actor |-> u.actor] >>
            ELSE <<>>

\* the oldest update resolves: the flag is stored; updateSanityFlagsForActor
\* resumes after its await and calls the hook if the tier changed
ResolveUpdate ==
  /\ pending # <<>>
  /\ \E u \in {Head(pending)} :
       /\ flags' = [flags EXCEPT ![u.actor] = u.data]
       /\ pending' = Tail(pending)
       /\ calc' = NoCalc
       /\ UNCHANGED <<actors, abilities, settings, sheet>>
       /\ rendered' = NoBar
       /\ resolved' = [actor |-> u.actor, src |-> u.src]
       /\ rejections' = <<>>
       /\ hookCalls' =
            IF u.hook /\ u.prevTier # getInsanityTierForActor(u.actor)'
            THEN << [prevTier |-> u.prevTier,
                     newTier |-> getInsanityTierForActor(u.actor)',
                     actor |-> u.actor] >>
            ELSE <<>>

\* variant: the rejection is caught around the await and dropped
FailUpdate_Swallowed ==
  /\ pending # <<>>
  /\ pending' = Tail(pending)
  /\ rejections' = <<>>
  /\ rendered' = NoBar
  /\ hookCalls' = <<>>
  /\ resolved' = NoUpdate
  /\ calc' = NoCalc
  /\ UNCHANGED <<actors, abilities, flags, settings, sheet>>

\* the host rejects the oldest update: nothing is stored; an awaiting
\* updateSanityFlagsForActor throws at its await, so the rest of it does not
\* run and the promise it returned rejects; no caller awaits or catches it
FailUpdate ==
  /\ pending # <<>>
  /\ \E u \in {Head(pending)} :
       /\ pending' = Tail(pending)
       /\ rejections' = << [actor |-> u.actor, src |-> u.src, caught |-> FALSE] >>
  /\ rendered' = NoBar
  /\ hookCalls' = <<>>
  /\ resolved' = NoUpdate
  /\ calc' = NoCalc
  /\ UNCHANGED <<actors, abilities, flags, settings, sheet>>

\* at most MaxPending updates are in flight
Bounded == Len(pending') <= MaxPending

Next ==
  \/ \E a \in Actors : renderActorSheet5eCharacter(a) /\ Bounded
  \/ \E a \in Actors, text \in HudInputs : renderTokenHUD(a, text) /\ Bounded
  \/ \E a \in Actors, text \in SheetInputs : SheetFieldEdit(a, text) /\ Bounded
  \/ \E a \in Actors, f \in Abilities, v \in AbilityScores : AbilityChange(a, f, v)
  \/ ResolveUpdate

Spec == Init /\ [][Next]_vars

(***************************************************************************)
(* The same world with the GM switching the three world settings between   *)
(* the events.                                                             *)
(***************************************************************************)
NextSettings ==
  \/ Next
  \/ \E k \in SettingNames : ToggleSetting(k)

SpecSettings == Init /\ [][NextSettings]_vars

(***************************************************************************)
(* The token HUD on its own: an actor whose flag was initialised to its     *)
(* total is set and adjusted through the HUD, and the host stores or        *)
(* rejects each update.                                                     *)
(***************************************************************************)
\* texts typed into the token HUD input
HudScenarioInputs ==
  { <<"-", "1", "0", "0">>, <<"1", "5">>, <<"9">>, <<"=", "2", "0">>,
    <<"+", "1">>, <<"-", "3">> }

InitHud ==
  /\ actors = {"a1"}
  /\ \E s \in [Abilities -> (MaxScore - 1)..MaxScore] :
       abilities = [a \in Actors |-> IF a \in actors THEN s ELSE [f \in Abilities |-> 0]]
  /\ flags = [a \in Actors |->
                IF a \in actors THEN Num(calcTotalSanityForActor(a, NoExtra)) ELSE Undefined]
  /\ settings = DefaultSettings
  /\ pending = <<>>
  /\ sheet = [a \in Actors |-> FALSE]
  /\ rendered = NoBar
  /\ hookCalls = <<>>
  /\ resolved = NoUpdate
  /\ calc = NoCalc
  /\ rejections = <<>>

NextHud ==
  \/ \E a \in Actors, text \in HudScenarioInputs : renderTokenHUD(a, text) /\ Bounded
  \/ ResolveUpdate
  \/ FailUpdate

SpecHud == InitHud /\ [][NextHud]_vars

(***************************************************************************)
(* The calculator on its own: an actor with any ability scores up to       *)
(* MaxScore and any stored flag is queried.                                *)
(***************************************************************************)
\* flags an actor may hold: unset, NaN, or a number in or around the range
StoredValues ==
  {Undefined, NaN} \cup {Num(n) : n \in (0 - 3)..(6 * MaxScore + 3)}

\* values handed to _clampValue
ClampInputs == {Undefined, NaN, Num(0 - 5), Num(0), Num(3), Num(99)}

InitCalc ==
  /\ actors = {"a1"}
  /\ abilities \in [Actors -> [Abilities -> 0..MaxScore]]
  /\ \A a \in Actors \ actors : \A f \in Abilities : abilities[a][f] = 0
  /\ flags \in [Actors -> StoredValues]
  /\ \A a \in Actors \ actors : flags[a] = Undefined
  /\ settings = DefaultSettings
  /\ pending = <<>>
  /\ sheet = [a \in Actors |-> FALSE]
  /\ rendered = NoBar
  /\ hookCalls = <<>>
  /\ resolved = NoUpdate
  /\ calc = NoCalc
  /\ rejections = <<>>

Answer(fn, a, arg, out) ==
  /\ a \in actors
  /\ calc' = [fn |-> fn, actor |-> a, arg |-> arg, out |-> out]
  /\ UNCHANGED <<actors, abilities, flags, settings, pending, sheet, rendered, hookCalls, resolved,
                 rejections>>

QueryCurrent(a) == Answer("getSanityForActor", a, Undefined, getSanityForActor(a))
QueryTotal(a) == Answer("getTotalSanityForActor", a, Undefined, Num(getTotalSanityForActor(a)))
QueryTier(a) == Answer("getInsanityTierForActor", a, Undefined, Num(getInsanityTierForActor(a)))
QueryClamp(a, value) == Answer("_clampValue", a, value, clampValue(value, a))

NextCalc ==
  \/ \E a \in Actors : QueryCurrent(a)
  \/ \E a \in Actors : QueryTotal(a)
  \/ \E a \in Actors : QueryTier(a)
  \/ \E a \in Actors, value \in ClampInputs : QueryClamp(a, value)

SpecCalc == InitCalc /\ [][NextCalc]_vars

(***************************************************************************)
(* The total computed with pending ability scores: calcTotalSanityForActor *)
(* is applied to an actor and an extraData object holding any of the three *)
(* scores.                                                                 *)
(***************************************************************************)
\* extraData.system.abilities: any subset of the scores, each in 0..MaxScore
ExtraDatas == UNION { [D -> 0..MaxScore] : D \in SUBSET Abilities }

InitOverride ==
  /\ actors = {"a1"}
  /\ \E s \in [Abilities -> 0..MaxScore] :
       abilities = [a \in Actors |-> IF a \in actors THEN s ELSE [f \in Abilities |-> 0]]
  /\ flags = [a \in Actors |-> Undefined]
  /\ settings = DefaultSettings
  /\ pending = <<>>
  /\ sheet = [a \in Actors |-> FALSE]
  /\ rendered = NoBar
  /\ hookCalls = <<>>
  /\ resolved = NoUpdate
  /\ calc = NoCalc
  /\ rejections = <<>>

QueryTotalWith(a, extraData) ==
  Answer("calcTotalSanityForActor", a, extraData, Num(calcTotalSanityForActor(a, extraData)))

\* one application to each actor and extraData, from the initial state
NextOverride ==
  \E a \in Actors, extraData \in ExtraDatas : calc = NoCalc /\ QueryTotalWith(a, extraData)

SpecOverride == InitOverride /\ [][NextOverride]_vars

(***************************************************************************)
(* Properties.                                                             *)
(***************************************************************************)
(* The chat notification: the listener of the insanityTierChanged hook     *)
(* posts a chat message for a call made by the step just taken. Which      *)
(* users hold the OWNER permission on the actor is the host's to say.      *)
(***************************************************************************)
Users == {"gm", "p1", "p2"}

\* variant: the message is whispered when notifications are public
postMessage_Inverted(insanityChanges, a, owners) ==
  [speaker |-> a,
   note |-> <<insanityChanges.prevTier, insanityChanges.newTier>>,
   title |-> insanityChanges.newTier,
   whisper |-> IF settings.publicSanMsg
               THEN [set |-> TRUE, users |-> owners]
               ELSE [set |-> FALSE, users |-> {}]]

\* the messageData given to ChatMessage.create: messageData.whisper is set
\* only when the publicSanMsg setting is off
postMessage(insanityChanges, a, owners) ==
  [speaker |-> a,
   note |-> <<insanityChanges.prevTier, insanityChanges.newTier>>,
   title |-> insanityChanges.newTier,
   whisper |-> IF ~settings.publicSanMsg
               THEN [set |-> TRUE, users |-> owners]
               ELSE [set |-> FALSE, users |-> {}]]

\* Hooks.on(insanityTierChanged): the message for the i-th call is created
insanityTierChanged(i, owners) ==
  /\ i \in 1..Len(hookCalls)
  /\ Answer("postMessage", hookCalls[i].actor,
            [insanityChanges |-> hookCalls[i], owners |-> owners],
            postMessage(hookCalls[i], hookCalls[i].actor, owners))

InitNotify ==
  /\ actors = {"a1"}
  /\ abilities = [a \in Actors |->
                    [f \in Abilities |-> IF a \in actors THEN MaxScore ELSE 0]]
  /\ flags = [a \in Actors |->
                IF a \in actors THEN Num(calcTotalSanityForActor(a, NoExtra)) ELSE Undefined]
  /\ \E b \in BOOLEAN : settings = [DefaultSettings EXCEPT !["publicSanMsg"] = b]
  /\ pending = <<>>
  /\ sheet = [a \in Actors |-> FALSE]
  /\ rendered = NoBar
  /\ hookCalls = <<>>
  /\ resolved = NoUpdate
  /\ calc = NoCalc
  /\ rejections = <<>>

NextNotify ==
  \/ \E a \in Actors, text \in HudScenarioInputs : renderTokenHUD(a, text) /\ Bounded
  \/ ResolveUpdate
  \/ \E i \in 1..Len(hookCalls), owners \in SUBSET Users : insanityTierChanged(i, owners)

SpecNotify == InitNotify /\ [][NextNotify]_vars

(***************************************************************************)
(* Overlapping updates: no caller awaits updateSanityFlagsForActor, so a    *)
(* second HUD edit or a sheet render can run while an update is in flight.  *)
(* The actor starts with or without its flag.                               *)
(***************************************************************************)
BoundedOverlap == Len(pending') <= MaxPending + 1

InitOverlap ==
  /\ actors = {"a1"}
  /\ abilities = [a \in Actors |->
                    [f \in Abilities |-> IF a \in actors THEN MaxScore ELSE 0]]
  /\ \E v \in {Undefined, Num(6 * MaxScore)} :
       flags = [a \in Actors |-> IF a \in actors THEN v ELSE Undefined]
  /\ settings = DefaultSettings
  /\ pending = <<>>
  /\ sheet = [a \in Actors |-> FALSE]
  /\ rendered = NoBar
  /\ hookCalls = <<>>
  /\ resolved = NoUpdate
  /\ calc = NoCalc
  /\ rejections = <<>>

NextOverlap ==
  \/ \E a \in Actors : renderActorSheet5eCharacter(a) /\ BoundedOverlap
  \/ \E a \in Actors, text \in HudScenarioInputs : renderTokenHUD(a, text) /\ BoundedOverlap
  \/ ResolveUpdate

SpecOverlap == InitOverlap /\ [][NextOverlap]_vars

(***************************************************************************)
(* Two actors in the world: a1 has no flag yet, a2 has one. Sheets are     *)
(* rendered and edited, the HUD is used, updates resolve.                  *)
(***************************************************************************)
FrameHudInputs == { <<"-", "3">>, <<"9", "9">> }
FrameSheetInputs == { <<"5", "0">> }

InitFrame ==
  /\ actors = Actors
  /\ abilities = [a \in Actors |->
                    IF a = "a1" THEN [f \in Abilities |-> 1]
                    ELSE [f \in Abilities |-> IF f = "cha" THEN 1 ELSE 0]]
  /\ flags = [a \in Actors |-> IF a = "a1" THEN Undefined ELSE Num(1)]
  /\ settings = DefaultSettings
  /\ pending = <<>>
  /\ sheet = [a \in Actors |-> FALSE]
  /\ rendered = NoBar
  /\ hookCalls = <<>>
  /\ resolved = NoUpdate
  /\ calc = NoCalc
  /\ rejections = <<>>

NextFrame ==
  \/ \E a \in Actors : renderActorSheet5eCharacter(a) /\ Bounded
  \/ \E a \in Actors, text \in FrameHudInputs : renderTokenHUD(a, text) /\ Bounded
  \/ \E a \in Actors, text \in FrameSheetInputs : SheetFieldEdit(a, text) /\ Bounded
  \/ ResolveUpdate

SpecFrame == InitFrame /\ [][NextFrame]_vars

(***************************************************************************)
\* the actor's scores and total as plain integers
ScoreSum(a) == abilities[a]["cha"] + abilities[a]["int"] + abilities[a]["wis"]
Capacity(a) == 2 * ScoreSum(a)
\* the stored current is the integer n
CurrentIs(a, n) == flags[a] = Num(n)
InRange(a) == flags[a].t = "num" /\ 0 <= flags[a].n /\ flags[a].n <= Capacity(a)
Asked(fn) == calc.fn = fn /\ calc.actor \in actors

\* C1: for every triple of non-negative integer ability scores, the capacity
\* computed for the actor with no pending override is 2 * (cha + int + wis).
C1_CapacityFormula ==
  Asked("getTotalSanityForActor") =>
    calc.out = Num(2 * (abilities[calc.actor]["cha"] + abilities[calc.actor]["int"]
                        + abilities[calc.actor]["wis"]))

C1_Witness ==
  /\ Asked("getTotalSanityForActor")
  /\ abilities[calc.actor] = [cha |-> 4, int |-> 3, wis |-> 3]
  /\ calc.out = Num(20)

\* the ratio current/capacity exceeds the coefficient tenths/10 (capacity > 0)
Exceeds(current, capacity, tenths) == 10 * current > tenths * capacity
TenthsList == <<8, 6, 4, 2, 1, 0>>
\* the coefficients met before the first one the ratio exceeds
MetBeforeFirstExceeded(current, capacity) ==
  {i \in 1..6 : \A j \in 1..i : ~Exceeds(current, capacity, TenthsList[j])}
\* the tiers the claim lists for capacity 20
Capacity20Tiers ==
  [c \in {20, 16, 15, 12, 9, 8, 4, 2, 0} |->
     CASE c = 20 -> 0 [] c = 16 -> 1 [] c = 15 -> 1 [] c = 12 -> 2 [] c = 9 -> 2
       [] c = 8 -> 3 [] c = 4 -> 4 [] c = 2 -> 5 [] c = 0 -> 6]

\* C4: with capacity > 0 and an integer current in [0, capacity], the tier is
\* the number of coefficients of [0.8, 0.6, 0.4, 0.2, 0.1, 0.0] met before the
\* first one the ratio exceeds, and 0 when current = capacity; a ratio equal to
\* a coefficient belongs to the higher tier; with capacity 20 the tiers of
\* 20, 16, 15, 12, 9, 8, 4, 2, 0 are 0, 1, 1, 2, 2, 3, 4, 5, 6.
C4_TierByThresholds ==
  (Asked("getInsanityTierForActor") /\ Capacity(calc.actor) > 0 /\ InRange(calc.actor)) =>
    LET current == flags[calc.actor].n
        capacity == Capacity(calc.actor)
    IN /\ calc.out = Num(IF current = capacity THEN 0
                         ELSE Cardinality(MetBeforeFirstExceeded(current, capacity)))
       /\ (capacity = 20 /\ current \in DOMAIN Capacity20Tiers) =>
            calc.out = Num(Capacity20Tiers[current])

\* a ratio equal to the coefficient 0.6: current 12 of capacity 20 is tier 2
C4_Witness ==
  /\ Asked("getInsanityTierForActor")
  /\ Capacity(calc.actor) = 20
  /\ CurrentIs(calc.actor, 12)
  /\ calc.out = Num(2)

\* C7: for every capacity > 0, a current of 0 is tier 6.
C7_ZeroCurrentIsTierSix ==
  (Asked("getInsanityTierForActor") /\ Capacity(calc.actor) > 0 /\ CurrentIs(calc.actor, 0)) =>
    calc.out = Num(6)

C7_Witness ==
  /\ Asked("getInsanityTierForActor")
  /\ Capacity(calc.actor) = 14
  /\ CurrentIs(calc.actor, 0)
  /\ calc.out = Num(6)

\* the tier the code computes for the actor were its stored current b
TierAtCurrent(a, b) ==
  calcInsanityTier(JsDiv(Num(b), calcTotalSanityForActor(a, NoExtra)), getTierCoef)

\* C8: for a fixed capacity > 0 and currents a <= b in [0, capacity], the tier
\* at a is at least the tier at b: lowering current never lowers the tier.
C8_TierMonotone ==
  (Asked("getInsanityTierForActor") /\ Capacity(calc.actor) > 0 /\ InRange(calc.actor)) =>
    \A b \in 0..Capacity(calc.actor) :
      /\ b <= flags[calc.actor].n => TierAtCurrent(calc.actor, b) >= calc.out.n
      /\ b >= flags[calc.actor].n => TierAtCurrent(calc.actor, b) <= calc.out.n

\* current 5 of capacity 24 is tier 3, below it tier 4 and more, above it less
C8_Witness ==
  /\ Asked("getInsanityTierForActor")
  /\ Capacity(calc.actor) = 24
  /\ CurrentIs(calc.actor, 5)
  /\ calc.out = Num(3)
  /\ TierAtCurrent(calc.actor, 4) = 4
  /\ TierAtCurrent(calc.actor, 10) = 2

\* the text typed into the HUD is an absolute set of a number
AbsoluteNumber(text) ==
  LET s == Trim(text) IN
  /\ ~StartsWith(s, "+")
  /\ ~StartsWith(s, "-")
  /\ Number(IF StartsWith(s, "=") THEN Tail(s) ELSE s).t = "num"

\* the HUD texts that are absolute numbers
AbsoluteTexts == { text \in HudInputs : AbsoluteNumber(text) }

C3_CurrentAlwaysInRange ==
  \A a \in actors : flags[a].t = "num" => InRange(a)

\* C5: whenever capacity <= 0 the tier is 0, whatever the stored current.
C5_InactiveTierZero ==
  \A a \in actors : Capacity(a) <= 0 => getInsanityTierForActor(a) = 0

\* C6: for every capacity, if current = capacity then the tier is 0.
C6_FullCurrentTierZero ==
  \A a \in actors : CurrentIs(a, Capacity(a)) => getInsanityTierForActor(a) = 0

\* the tiers named by the step just taken: the one shown on the sheet and
\* those carried by the hook calls
TiersReported ==
  (IF rendered.actor \in actors THEN {rendered.tier} ELSE {})
    \cup {hookCalls[i].prevTier : i \in 1..Len(hookCalls)}
    \cup {hookCalls[i].newTier : i \in 1..Len(hookCalls)}

\* C9: in every reachable state the tier is an integer in 0..6, whatever the
\* stored current (in range, out of range, absent) and whatever the capacity.
C9_TierInZeroToSix ==
  /\ \A a \in actors : getInsanityTierForActor(a) \in 0..6
  /\ TiersReported \subseteq 0..6

\* a negative current is stored by a sheet edit: the tier is 6
C9_Witness ==
  /\ flags["a1"] = Num(0 - 3)
  /\ getInsanityTierForActor("a1") = 6
  /\ Capacity("a1") > 0

\* the tier as a function of (current, capacity) alone: 0 for a ratio of 1,
\* else the number of coefficients the ratio does not exceed
TierFunction(current, capacity) ==
  LET ratio == JsDiv(current, capacity)
  IN IF ratio.t = "num" /\ ratio.n = ratio.d THEN 0
     ELSE Cardinality({i \in 1..6 :
            ~(ratio.t = "+inf" \/ (ratio.t = "num" /\ 10 * ratio.n > TenthsList[i] * ratio.d))})

\* C10: the tier is never sticky or path-dependent: the tier a sheet render
\* shows, and the new tier a hook call carries, is the tier function applied to
\* the actor's present (current, capacity), whatever happened before.
C10_TierNotSticky ==
  /\ rendered.actor \in actors =>
       rendered.tier = TierFunction(flags[rendered.actor], Capacity(rendered.actor))
  /\ \A i \in 1..Len(hookCalls) :
       hookCalls[i].newTier =
         TierFunction(flags[hookCalls[i].actor], Capacity(hookCalls[i].actor))

\* a sheet render shows tier 2 for current 2 of capacity 4 while an update
\* that will change the current is still in flight
C10_Witness ==
  /\ rendered.actor = "a1"
  /\ rendered.tier = 2
  /\ CurrentIs("a1", 2)
  /\ Capacity("a1") = 4
  /\ pending # <<>>
  /\ pending[1].data # flags["a1"]

\* C11: a set of the current through updateSanityFlagsForActor takes as previous
\* tier the tier of the actor when it starts, and when its write is stored it
\* emits one insanityTierChanged call carrying that previous tier, the tier
\* after the write and the actor if the two tiers differ, and nothing if they
\* are equal.
C11_EventIffTierMoved ==
  [][ /\ (Len(pending') > Len(pending) /\ pending'[Len(pending')].hook) =>
           \E sent \in {pending'[Len(pending')]} :
             sent.prevTier = TierFunction(flags[sent.actor], Capacity(sent.actor))
      /\ ResolveUpdate =>
           \E u \in {Head(pending)} :
             u.hook =>
               \E after \in {TierFunction(flags'[u.actor], Capacity(u.actor))} :
                 hookCalls' =
                   IF u.prevTier # after
                   THEN << [prevTier |-> u.prevTier, newTier |-> after, actor |-> u.actor] >>
                   ELSE <<>> ]_vars

\* a set to 15 of capacity 20, from current 20, has been stored and announced
\* as the change from tier 0 to tier 1
C11_Witness ==
  /\ resolved = [actor |-> "a1", src |-> "set"]
  /\ Capacity("a1") = 20
  /\ CurrentIs("a1", 15)
  /\ hookCalls = << [prevTier |-> 0, newTier |-> 1, actor |-> "a1"] >>

\* C12: an insanityTierChanged call is made only in the step in which the
\* update of that actor has been stored, and when it is delivered the tier read
\* from the actor is the call's newTier.
C12_EventAfterWrite ==
  \A i \in 1..Len(hookCalls) :
    /\ resolved.actor = hookCalls[i].actor
    /\ rejections = <<>>
    /\ getInsanityTierForActor(hookCalls[i].actor) = hookCalls[i].newTier

\* the adjustment -3 of current 6 of capacity 6 has been stored and announced:
\* the actor reads tier 2, the newTier of the call
C12_Witness ==
  /\ resolved = [actor |-> "a1", src |-> "adjust"]
  /\ Capacity("a1") = 6
  /\ CurrentIs("a1", 3)
  /\ Len(hookCalls) = 1
  /\ hookCalls[1].newTier = 2
  /\ getInsanityTierForActor("a1") = 2

\* the text -100 typed into the HUD
Minus100 == <<"-", "1", "0", "0">>

\* C13: an adjustment whose clamped result crosses several tiers at once emits
\* exactly one insanityTierChanged call, from the tier before to the tier
\* after: with capacity 20 and current 20 the adjustment -100 sends current 0,
\* and storing it makes the tier 6 and emits the single call 0 -> 6.
C13_OneEventAcrossTiers ==
  [][ /\ (Len(pending') > Len(pending)) =>
           \A a \in actors :
             (Capacity(a) = 20 /\ CurrentIs(a, 20) /\ renderTokenHUD(a, Minus100)) =>
               \E sent \in {pending'[Len(pending')]} :
                 sent.src = "adjust" /\ sent.data = Num(0) /\ sent.prevTier = 0
      /\ ResolveUpdate =>
           \E u \in {Head(pending)} :
             (u.src = "adjust") =>
               \E after \in {TierFunction(flags'[u.actor], Capacity(u.actor))} :
                 /\ Len(hookCalls') <= 1
                 /\ (after - u.prevTier > 1 \/ u.prevTier - after > 1) =>
                      hookCalls' = << [prevTier |-> u.prevTier, newTier |-> after,
                                       actor |-> u.actor] >>
                 /\ (Capacity(u.actor) = 20 /\ u.data = Num(0) /\ u.prevTier = 0) =>
                      /\ flags'[u.actor] = Num(0)
                      /\ after = 6
                      /\ hookCalls' = << [prevTier |-> 0, newTier |-> 6, actor |-> u.actor] >>
    ]_vars

\* the adjustment of current 20 of capacity 20 has been stored as 0 and
\* announced by the one call 0 -> 6
C13_Witness ==
  /\ resolved = [actor |-> "a1", src |-> "adjust"]
  /\ Capacity("a1") = 20
  /\ CurrentIs("a1", 0)
  /\ hookCalls = << [prevTier |-> 0, newTier |-> 6, actor |-> "a1"] >>

\* the deltas among the texts typed into the HUD, as integers
DeltaTexts == { <<"+", "1">>, <<"-", "3">>, Minus100 }
DeltaValue(text) ==
  CASE text = <<"+", "1">> -> 1 [] text = <<"-", "3">> -> 0 - 3 [] text = Minus100 -> 0 - 100

\* C14: a relative adjustment by delta of an actor whose stored current is in
\* range sends the update that an absolute set to current + delta sends from
\* the same state (same actor, same clamped value, same previous tier), so the
\* current stored and the hook calls made when it resolves are the same.
C14_AdjustIsSetOfSum ==
  [][ (Len(pending') > Len(pending)) =>
        \A a \in actors, text \in DeltaTexts :
          (InRange(a) /\ renderTokenHUD(a, text)) =>
            \E sent \in {pending'[Len(pending')]} :
              /\ sent.src = "adjust"
              /\ [sent EXCEPT !.src = "set"] =
                   updateSanityFlagsForActor(
                     a, clampValue(Num(flags[a].n + DeltaValue(text)), a), "set")
              /\ sent.data =
                   Num(IF flags[a].n + DeltaValue(text) < 0 THEN 0
                       ELSE IF flags[a].n + DeltaValue(text) > Capacity(a) THEN Capacity(a)
                       ELSE flags[a].n + DeltaValue(text)) ]_vars

\* the adjustment -3 of current 20 of capacity 20 has been stored as 17, what
\* a set to 17 stores, with no hook call (tier 0 before and after)
C14_Witness ==
  /\ resolved = [actor |-> "a1", src |-> "adjust"]
  /\ Capacity("a1") = 20
  /\ CurrentIs("a1", 17)
  /\ hookCalls = <<>>

\* C15: a sheet render initialises the flag only for an actor that has none,
\* with current = capacity, and stores nothing itself; a render of an actor
\* that has the flag (for instance one lowered by an adjustment) sends no
\* initialisation, so the current is left as it is.
C15_InitializeOnlyOnce ==
  [][ \A a \in actors :
        renderActorSheet5eCharacter(a) =>
          /\ flags' = flags
          /\ IF settings.injectButton /\ flags[a] = Undefined
             THEN /\ Len(pending') = Len(pending) + 1
                  /\ \E sent \in {pending'[Len(pending')]} :
                       /\ sent.actor = a
                       /\ sent.src = "init"
                       /\ sent.data = Num(Capacity(a))
             ELSE \A i \in 1..Len(pending') :
                    pending'[i].src = "init" => (i <= Len(pending) /\ pending[i] = pending'[i])
    ]_vars

\* the sheet of an actor whose current was lowered to 3 of 6 has just been
\* rendered: nothing was sent and the current is still 3
C15_Witness ==
  /\ rendered.actor = "a1"
  /\ rendered.curr = Num(3)
  /\ Capacity("a1") = 6
  /\ CurrentIs("a1", 3)
  /\ pending = <<>>

\* the score of field f when extraData is merged over the actor's scores:
\* the pending value if extraData has the field, else the stored one
MergedScore(a, extraData, f) ==
  IF f \in DOMAIN extraData THEN extraData[f] ELSE abilities[a][f]

\* C16: the total computed with pending scores takes, for each of cha, int and
\* wis, the pending value whenever extraData has that field (0 included) and
\* the stored value only when it has not.
C16_PendingTakesPrecedence ==
  Asked("calcTotalSanityForActor") =>
    calc.out = Num(2 * (MergedScore(calc.actor, calc.arg, "cha")
                        + MergedScore(calc.actor, calc.arg, "int")
                        + MergedScore(calc.actor, calc.arg, "wis")))

\* C17: when an ability score changes so that the capacity falls below the
\* stored current, the step of the change itself, before the new score is
\* committed, sends an update that re-clamps the current to the new capacity.
C17_ReclampOnAbilityChange ==
  [][ \A a \in actors :
        (flags[a].t = "num" /\ abilities'[a] # abilities[a] /\ Capacity(a)' < flags[a].n) =>
          \E i \in 1..Len(pending') :
            /\ i > Len(pending)
            /\ pending'[i].actor = a
            /\ pending'[i].data = Num(Capacity(a)') ]_vars

\* C18: every step that changes the stored current of an actor so that its
\* tier after differs from its tier before makes an insanityTierChanged call
\* for that actor, from the tier before to the tier after.
C18_EveryTierChangeAnnounced ==
  [][ \A a \in actors :
        (/\ flags'[a] # flags[a]
         /\ TierFunction(flags'[a], Capacity(a)) # TierFunction(flags[a], Capacity(a))) =>
          \E i \in 1..Len(hookCalls') :
            /\ hookCalls'[i].actor = a
            /\ hookCalls'[i].prevTier = TierFunction(flags[a], Capacity(a))
            /\ hookCalls'[i].newTier = TierFunction(flags'[a], Capacity(a)) ]_vars

C21_CapacityIsLive ==
  \A a \in actors :
    getTotalSanityForActor(a) =
      2 * (abilities[a]["cha"] + abilities[a]["int"] + abilities[a]["wis"])

\* an ability score has been lowered after the current was initialised to 6:
\* the total read is 4, the one of the new scores, with the current still 6
C21_Witness ==
  /\ CurrentIs("a1", 6)
  /\ abilities["a1"]["cha"] + abilities["a1"]["int"] + abilities["a1"]["wis"] = 2
  /\ getTotalSanityForActor("a1") = 4
  /\ pending = <<>>
  /\ resolved = NoUpdate

\* C22: the settings do not affect what is stored: whatever the settings are,
\* a render of the sheet of an actor without flag sends the initialisation and
\* a render of an actor whose numeric current is outside [0, total] (total > 0)
\* sends the clamped value, as they do when every setting has its default.
C22_SettingsDoNotAffectRecord ==
  [][ \A a \in actors :
        renderActorSheet5eCharacter(a) =>
          /\ flags[a] = Undefined =>
                pending' = Append(pending, initializeSanityValuesForActor(a))
          /\ (flags[a].t = "num" /\ Capacity(a) > 0 /\ ~InRange(a)) =>
                pending' = Append(pending,
                  updateSanityForActor(a, clampValue(flags[a], a), "clamp")) ]_vars

\* what each text typed in the HUD means: relative or absolute, and the number
HudMeaning(text) ==
  CASE text = <<"-", "1", "0", "0">> -> [relative |-> TRUE, n |-> 0 - 100]
    [] text = <<"1", "5">> -> [relative |-> FALSE, n |-> 15]
    [] text = <<"9">> -> [relative |-> FALSE, n |-> 9]
    [] text = <<"=", "2", "0">> -> [relative |-> FALSE, n |-> 20]
    [] text = <<"+", "1">> -> [relative |-> TRUE, n |-> 1]
    [] text = <<"-", "3">> -> [relative |-> TRUE, n |-> 0 - 3]

ClampTo(n, capacity) == IF n < 0 THEN 0 ELSE IF n > capacity THEN capacity ELSE n

\* C23: a text typed in the token HUD that starts with "+" or "-" adjusts the
\* stored current by the signed number, a text that starts with "=" sets the
\* current to the number after the "=", a bare number sets the current to
\* that number, and in every case the value sent to be written for the actor
\* is the result clamped to [0, capacity].
C23_HudTextParsed ==
  [][ (Len(pending') > Len(pending)) =>
        \A a \in actors, text \in HudScenarioInputs :
          (flags[a].t = "num" /\ renderTokenHUD(a, text)) =>
            \E sent \in {pending'[Len(pending')]}, m \in {HudMeaning(text)} :
              /\ sent.actor = a
              /\ sent.src = (IF m.relative THEN "adjust" ELSE "set")
              /\ sent.data =
                   Num(ClampTo(IF m.relative THEN flags[a].n + m.n ELSE m.n,
                               Capacity(a))) ]_vars

\* "=20" has been stored as 20 for an actor of capacity 24 whose current was 0
\* (after "-100"): an absolute set, not clamped, written as typed
C23_Witness ==
  /\ resolved = [actor |-> "a1", src |-> "set"]
  /\ Capacity("a1") = 24
  /\ CurrentIs("a1", 20)

\* C24: the chat message created for a call of the insanityTierChanged hook
\* has its whisper field set to exactly the users holding the OWNER
\* permission on the actor when the publicSanMsg setting is off, and has no
\* whisper field when the setting is on.
C24_WhisperToOwnersUnlessPublic ==
  Asked("postMessage") =>
    /\ calc.out.speaker = calc.arg.insanityChanges.actor
    /\ settings.publicSanMsg => ~calc.out.whisper.set
    /\ ~settings.publicSanMsg =>
          (calc.out.whisper.set /\ calc.out.whisper.users = calc.arg.owners)

\* with the setting off, the message for the change from tier 0 to tier 6 of
\* an actor owned by the GM and one player is whispered to those two
C24_Witness ==
  /\ Asked("postMessage")
  /\ ~settings.publicSanMsg
  /\ calc.arg.insanityChanges = [prevTier |-> 0, newTier |-> 6, actor |-> "a1"]
  /\ calc.arg.owners = {"gm", "p1"}
  /\ calc.out.whisper = [set |-> TRUE, users |-> {"gm", "p1"}]

\* with the setting on, a message has been created with no whisper field
C24_WitnessPublic ==
  /\ Asked("postMessage")
  /\ settings.publicSanMsg
  /\ ~calc.out.whisper.set

C26_EventsFormChain ==
  /\ [][ \A i \in 1..Len(hookCalls), j \in 1..Len(hookCalls') :
            hookCalls[i].actor = hookCalls'[j].actor =>
              hookCalls'[j].prevTier = hookCalls[i].newTier ]_vars
  /\ [](\A i \in 1..Len(hookCalls) :
          pending = <<>> =>
            hookCalls[i].newTier = getInsanityTierForActor(hookCalls[i].actor))

\* C27: no relative adjustment is lost: when a delta d2 is typed for an actor
\* while the update of an earlier delta d1 is still in flight, the value sent
\* for d2 is clamp(clamp(c0 + d1) + d2), the adjustment of the value the
\* earlier update is about to store, so that value is the stored current once
\* both have resolved.
C27_NoLostAdjustment ==
  [][ (Len(pending') > Len(pending) /\ pending # <<>>) =>
        \A a \in actors, text \in DeltaTexts :
          \E first \in {pending[Len(pending)]} :
            (/\ renderTokenHUD(a, text)
             /\ first.actor = a
             /\ first.src = "adjust"
             /\ first.data.t = "num") =>
              pending'[Len(pending')].data =
                Num(ClampTo(first.data.n + DeltaValue(text), Capacity(a))) ]_vars

\* C28: an initialisation never overwrites a value the user has set: when the
\* update of an initialisation is stored for an actor whose flag already holds
\* a number (one typed in the HUD since the initialisation was sent), the
\* stored current stays what it was.
C28_InitNeverOverwrites ==
  [][ (resolved'.src = "init" /\ ResolveUpdate) =>
        \E u \in {Head(pending)} :
          flags[u.actor].t = "num" => flags'[u.actor] = flags[u.actor] ]_vars

\* C29: the stored current is always a number: in every reachable state the
\* flag of an actor is absent or holds a number, never a not-a-number value
\* (a HUD text that is no number, or a relative text for an actor without
\* flag, stores nothing).
C29_StoredCurrentIsNumber ==
  \A a \in Actors : flags[a] = Undefined \/ flags[a].t = "num"

\* C30: a step that sends or stores an update (a set, an adjustment, an
\* initialisation, a clamp on render, a sheet edit) leaves the ability scores
\* of every actor, the settings and the set of actors as they are, and changes
\* no flag but the currSanity flag of the actor the stored update is for,
\* which becomes the value of that update.
C30_OnlyTheActorsFlagWritten ==
  [][ (pending' # pending) =>
        /\ abilities' = abilities
        /\ settings' = settings
        /\ actors' = actors
        /\ \A b \in Actors :
             flags'[b] # flags[b] =>
               /\ ResolveUpdate
               /\ Head(pending).actor = b
               /\ flags'[b] = Head(pending).data ]_vars

\* the initialisation of a1 has been stored (current 6 = its total) while a2
\* keeps the current 1 it had and both keep their ability scores
C30_Witness ==
  /\ resolved = [actor |-> "a1", src |-> "init"]
  /\ CurrentIs("a1", 6)
  /\ CurrentIs("a2", 1)
  /\ Capacity("a1") = 6
  /\ Capacity("a2") = 2

====
